---------------------------- MODULE Spec2Model ----------------------------
(***************************************************************************)
(* Model of limare/lib/texture.c: the space filler index, the level layout *)
(* in the auxiliary memory arena, the swizzle of level 0, the mipmap       *)
(* generation and the packing of the texture descriptor.                   *)
(*                                                                         *)
(* Integers are C ints in two's complement, -2^31 .. 2^31 - 1; a 32-bit    *)
(* physical address of 2^31 or more is the int with the same bits.  A      *)
(* 32-bit descriptor word is the set of the positions (0..31) of its set   *)
(* bits, so OR is union, "&= ~mask" is set difference and a shift moves    *)
(* positions and drops those that leave 0..31.                             *)
(***************************************************************************)
EXTENDS Integers, Sequences, FiniteSets

VARIABLES
    state,      \* struct limare_state: the aux_mem_* fields
    mem,        \* bytes of the auxiliary memory, by offset from aux_mem_address
    texture,    \* what the last texture_create returned (NULL or the texture)
    call,       \* the operation last applied, its arguments and the state it saw
    ret,        \* result of the last pure function applied
    ncalls,     \* number of texture_create calls made on this arena
    mem_physical_signed
                \* whether texture.h declares mem_physical as a signed int:
                \* it decides what >> does to an address with bit 31 set

vars == <<state, mem, texture, call, ret, ncalls, mem_physical_signed>>

(***************************************************************************)
(* Program constants.                                                      *)
(***************************************************************************)
\* texture_create rejects width or height above this
MaxDim == 4096
\* formats.h
LIMA_TEXEL_FORMAT_RGB_888 == 21
\* formats.h, one of the formats texture_create does not implement
LIMA_TEXEL_FORMAT_RGBA_8888 == 22

NULL == [null |-> TRUE]
NoCall == [op |-> "none"]
NoRet == [op |-> "none"]
NoMem == <<>>

(***************************************************************************)
(* C arithmetic on ints.  >> of a negative int is the arithmetic shift (the *)
(* floor of the division); ^ and | are applied to table indices 0..15.     *)
(***************************************************************************)
\* x << n
Shl(x, n) == x * (2 ^ n)
\* x >> n
Shr(x, n) == x \div (2 ^ n)

RECURSIVE BitXor(_, _)
\* a ^ b
BitXor(a, b) ==
    IF a = 0 THEN b
    ELSE IF b = 0 THEN a
    ELSE (((a % 2) + (b % 2)) % 2) + 2 * BitXor(a \div 2, b \div 2)

RECURSIVE BitOr(_, _)
\* a | b
BitOr(a, b) ==
    IF a = 0 THEN b
    ELSE IF b = 0 THEN a
    ELSE (IF a % 2 = 1 \/ b % 2 = 1 THEN 1 ELSE 0) + 2 * BitOr(a \div 2, b \div 2)

\* limare.h: #define ALIGN(x, y) (((x) + ((y) - 1)) & ~((y) - 1)), y a power of two
ALIGN(x, y) == (x + (y - 1)) - ((x + (y - 1)) % y)

(***************************************************************************)
(* The space filler index.                                                 *)
(***************************************************************************)
\* the table, indexed 0..15
space_filler_indices ==
    [i \in 0..15 |->
        CASE i = 0 -> 0   [] i = 1 -> 1   [] i = 2 -> 4   [] i = 3 -> 5
          [] i = 4 -> 16  [] i = 5 -> 17  [] i = 6 -> 20  [] i = 7 -> 21
          [] i = 8 -> 64  [] i = 9 -> 65  [] i = 10 -> 68 [] i = 11 -> 69
          [] i = 12 -> 80 [] i = 13 -> 81 [] i = 14 -> 84 [] i = 15 -> 85]

\* a plausible slip: the y table entry is not shifted into the odd bits
space_filler_index_noshift(x, y) ==
    BitOr(space_filler_indices[BitXor(y, x)], space_filler_indices[y])

space_filler_index(x, y) ==
    BitOr(space_filler_indices[BitXor(y, x)], Shl(space_filler_indices[y], 1))

(***************************************************************************)
(* 32-bit words as sets of bit positions.                                  *)
(***************************************************************************)
\* the 32-bit word holding the int n: bit 31 is the sign
Bits(n) ==
    {b \in 0..30 : (n \div (2 ^ b)) % 2 = 1} \cup (IF n < 0 THEN {31} ELSE {})
\* w << n, on 32 bits
WShl(w, n) == {c + n : c \in {b \in w : b + n <= 31}}
\* w >> n, w unsigned
WShr(w, n) == {c - n : c \in {b \in w : b >= n}}
\* w >> n, w signed: the sign bit fills the vacated positions
WSar(w, n) == WShr(w, n) \cup (IF 31 \in w THEN (32 - n)..31 ELSE {})
\* level->mem_physical >> n
PhysShr(w, n) == IF mem_physical_signed THEN WSar(w, n) ELSE WShr(w, n)
\* the mask with bits lo..hi set
Mask(lo, hi) == lo..hi

(***************************************************************************)
(* texture_24_create, lines 217-251: the level plan and the reservation.   *)
(***************************************************************************)
\* a plausible slip: a dimension shifted down to 0 is kept at 0
level_plan_noclamp(tex, i) ==
    LET lw == Shr(tex.width, i)
        lh == Shr(tex.height, i)
        width == ALIGN(lw, 16)
        height == ALIGN(lh, 16)
        pitch == ALIGN(width * 3, 4)
    IN  [level |-> i, width |-> lw, height |-> lh,
         size |-> ALIGN(pitch * height, 1024),
         dest |-> 0, mem_physical |-> 0]

\* a plausible slip: level sizes aligned to a 4096-byte page
level_plan_pagealign(tex, i) ==
    LET w0 == Shr(tex.width, i)
        h0 == Shr(tex.height, i)
        lw == IF w0 = 0 THEN 1 ELSE w0
        lh == IF h0 = 0 THEN 1 ELSE h0
        width == ALIGN(lw, 16)
        height == ALIGN(lh, 16)
        pitch == ALIGN(width * 3, 4)
    IN  [level |-> i, width |-> lw, height |-> lh,
         size |-> ALIGN(pitch * height, 4096),
         dest |-> 0, mem_physical |-> 0]

\* one pass of the first loop: level i's dimensions and size
level_plan(tex, i) ==
    LET w0 == Shr(tex.width, i)
        h0 == Shr(tex.height, i)
        lw == IF w0 = 0 THEN 1 ELSE w0
        lh == IF h0 = 0 THEN 1 ELSE h0
        width == ALIGN(lw, 16)
        height == ALIGN(lh, 16)
        pitch == ALIGN(width * 3, 4)
    IN  [level |-> i, width |-> lw, height |-> lh,
         size |-> ALIGN(pitch * height, 1024),
         dest |-> 0, mem_physical |-> 0]

RECURSIVE levels_size(_, _, _)
\* size, summed over levels i..n-1
levels_size(level, i, n) ==
    IF i >= n THEN 0 ELSE level[i].size + levels_size(level, i + 1, n)

\* the check of line 237
aux_mem_exceeded(st, tex, size) ==
    (st.aux_mem_size - st.aux_mem_used) < size

\* one pass of the second loop, lines 245-250
level_reserve(st, level) ==
    [state |-> [st EXCEPT !.aux_mem_used = @ + level.size],
     level |-> [level EXCEPT
                  !.dest = st.aux_mem_address + st.aux_mem_used,
                  !.mem_physical = st.aux_mem_physical + st.aux_mem_used]]

RECURSIVE levels_reserve(_, _, _, _)
\* the second loop, from level i on
levels_reserve(st, level, i, n) ==
    IF i >= n THEN [state |-> st, level |-> level]
    ELSE LET r == level_reserve(st, level[i])
         IN  levels_reserve(r.state, [level EXCEPT ![i] = r.level], i + 1, n)

\* a plausible slip: the levels are reserved before the capacity is checked
texture_24_layout_commit_first(st, tex) ==
    LET planned == [tex EXCEPT !.level = [i \in 0..(tex.levels - 1) |-> level_plan(tex, i)]]
        r == levels_reserve(st, planned.level, 0, planned.levels)
    IN  IF r.state.aux_mem_size < r.state.aux_mem_used
        THEN [ret |-> -1, state |-> r.state, texture |-> planned]
        ELSE [ret |-> 0, state |-> r.state,
              texture |-> [planned EXCEPT !.level = r.level]]

\* lines 217-251 of texture_24_create: [ret, state, texture]
texture_24_layout(st, tex) ==
    LET planned == [tex EXCEPT !.level = [i \in 0..(tex.levels - 1) |-> level_plan(tex, i)]]
        size == levels_size(planned.level, 0, planned.levels)
    IN  IF aux_mem_exceeded(st, planned, size)
        THEN [ret |-> -1, state |-> st, texture |-> planned]
        ELSE LET r == levels_reserve(st, planned.level, 0, planned.levels)
             IN  [ret |-> 0, state |-> r.state,
                  texture |-> [planned EXCEPT !.level = r.level]]

(***************************************************************************)
(* texture_descriptor_level_attach.                                        *)
(***************************************************************************)
\* descriptor[w] &= ~mask; descriptor[w] |= value
desc_set(descriptor, w, mask, value) ==
    [descriptor EXCEPT ![w] = (@ \ mask) \cup value]

texture_descriptor_level_attach(tex, i) ==
    LET p == Bits(tex.level[i].mem_physical)
        d == tex.descriptor
        d2 ==
          CASE i = 0 ->      \* ~0xC0000000, << 24; ~0x00FFFFFF, >> 8
                 desc_set(desc_set(d, 6, Mask(30, 31), WShl(p, 24)),
                          7, Mask(0, 23), PhysShr(p, 8))
            [] i = 1 ->      \* ~0xFF000000, << 18; ~0x0003FFFF, >> 14
                 desc_set(desc_set(d, 7, Mask(24, 31), WShl(p, 18)),
                          8, Mask(0, 17), PhysShr(p, 14))
            [] i = 2 ->      \* ~0xFFFC0000, << 12; ~0x00000FFF, >> 20
                 desc_set(desc_set(d, 8, Mask(18, 31), WShl(p, 12)),
                          9, Mask(0, 11), PhysShr(p, 20))
            [] i = 3 ->      \* ~0xFFFFF000, << 6; ~0x0000003F, >> 26
                 desc_set(desc_set(d, 9, Mask(12, 31), WShl(p, 6)),
                          10, Mask(0, 5), PhysShr(p, 26))
            [] i = 4 ->      \* ~0xFFFFFFC0, unshifted
                 desc_set(d, 10, Mask(6, 31), p)
            [] i = 5 ->      \* ~0x03FFFFFF, >> 6
                 desc_set(d, 11, Mask(0, 25), PhysShr(p, 6))
            [] i = 6 ->      \* ~0xFC000000, << 20; ~0x000FFFFF, >> 12
                 desc_set(desc_set(d, 11, Mask(26, 31), WShl(p, 20)),
                          12, Mask(0, 19), PhysShr(p, 12))
            [] i = 7 ->      \* ~0xFFF00000, << 14; ~0x00003FFF, >> 18
                 desc_set(desc_set(d, 12, Mask(20, 31), WShl(p, 14)),
                          13, Mask(0, 13), PhysShr(p, 18))
            [] i = 8 ->      \* ~0xFFFFC000, << 8; ~0x000000FF, >> 24
                 desc_set(desc_set(d, 13, Mask(14, 31), WShl(p, 8)),
                          14, Mask(0, 7), PhysShr(p, 24))
            [] i = 9 ->      \* ~0xFFFFFF00, << 2; ~0x03, >> 30
                 desc_set(desc_set(d, 14, Mask(8, 31), WShl(p, 2)),
                          15, Mask(0, 1), PhysShr(p, 30))
            [] i = 10 ->     \* ~0x0FFFFFFC, >> 4
                 desc_set(d, 15, Mask(2, 27), PhysShr(p, 4))
            [] OTHER -> d    \* 11, 12: implied; above: not implemented
    IN  [tex EXCEPT !.descriptor = d2]

RECURSIVE texture_descriptor_levels_attach_from(_, _)
texture_descriptor_levels_attach_from(tex, i) ==
    IF i >= tex.levels THEN tex
    ELSE texture_descriptor_levels_attach_from(
             texture_descriptor_level_attach(tex, i), i + 1)

texture_descriptor_levels_attach(tex) ==
    texture_descriptor_levels_attach_from(tex, 0)

(***************************************************************************)
(* texture_create, without the pixel passes of texture_24_create (which    *)
(* write arena memory only and decide nothing).                            *)
(***************************************************************************)
RECURSIVE shift_count(_, _)
\* for (i = 0; max >> i; i++) ;
shift_count(max, i) ==
    IF Shr(max, i) # 0 THEN shift_count(max, i + 1) ELSE i

\* a plausible slip: the loop stops one level early
texture_levels_short(width, height, mipmap) ==
    IF mipmap # 0
    THEN LET max == IF width > height THEN width ELSE height
         IN  shift_count(max, 0) - 1
    ELSE 1

\* lines 365-378
texture_levels(width, height, mipmap) ==
    IF mipmap # 0
    THEN LET max == IF width > height THEN width ELSE height
         IN  shift_count(max, 0)
    ELSE 1

\* calloc'ed struct texture with lines 361-378 applied
texture_new(width, height, format, mipmap) ==
    [width |-> width, height |-> height, format |-> format,
     levels |-> texture_levels(width, height, mipmap),
     level |-> <<>>,
     descriptor |-> [w \in 0..15 |-> {}]]

\* lines 405-413; width << 22 keeps the bits that fit the 32-bit word
texture_describe(tex, flag0, flag1, layout) ==
    texture_descriptor_levels_attach(
        [tex EXCEPT !.descriptor =
            [w \in 0..15 |->
                CASE w = 0 -> Bits(Shl(flag0, 7)) \cup Bits(Shl(flag1, 6))
                                \cup Bits(tex.format)
                  [] w = 1 -> Bits(1024)
                  [] w = 2 -> WShl(Bits(tex.width), 22)
                  [] w = 3 -> Bits(65536) \cup WShl(Bits(tex.height), 3)
                                \cup Bits(Shr(tex.width, 10))
                  [] w = 6 -> Bits(Shl(layout, 13))
                  [] OTHER -> {}]])

\* texture_create: [texture, state]; texture is NULL on every failure
texture_create(st, width, height, format, mipmap) ==
    IF (width > MaxDim) \/ (height > MaxDim)
    THEN [texture |-> NULL, state |-> st]
    ELSE IF format = LIMA_TEXEL_FORMAT_RGB_888
    THEN LET r == texture_24_layout(st, texture_new(width, height, format, mipmap))
         IN  IF r.ret # 0
             THEN [texture |-> NULL, state |-> r.state]
             ELSE [texture |-> texture_describe(r.texture, 1, 0, 3),
                   state |-> r.state]
    ELSE [texture |-> NULL, state |-> st]

(***************************************************************************)
(* texture_24_swizzle.  Memory is addressed by offset from aux_mem_address *)
(* (base); pixels is the caller's buffer, a function from byte offsets.    *)
(***************************************************************************)
\* a plausible slip: the block pitch is taken from the unaligned width
swizzle_dest_floor_pitch(width, x, y) ==
    LET block_pitch == Shr(width, 4)
        block_y == Shr(y, 4)
        rem_y == y % 16
        block_x == Shr(x, 4)
        rem_x == x % 16
        index == space_filler_index(rem_x, rem_y)
    IN  (3 * 256) * (block_y * block_pitch + block_x) + 3 * index

\* lines 84-100: where pixel (x, y) goes, as an offset from level[0].dest
swizzle_dest(width, x, y) ==
    LET block_pitch == Shr(ALIGN(width, 16), 4)
        block_y == Shr(y, 4)
        rem_y == y % 16
        block_x == Shr(x, 4)
        rem_x == x % 16
        index == space_filler_index(rem_x, rem_y)
    IN  (3 * 256) * (block_y * block_pitch + block_x) + 3 * index

\* a store leaves the extent of memory as it is; asking so makes the store
\* of one loop pass take place before the next pass starts
Stored(m2, m) == DOMAIN m2 = DOMAIN m

\* the body of the inner loop, lines 92-104
swizzle_pixel(m, base, tex, pixels, x, y) ==
    LET source_pitch == ALIGN(tex.width * 3, 4)
        source == y * source_pitch + 3 * x
        dest == (tex.level[0].dest - base) + swizzle_dest(tex.width, x, y)
    IN  [m EXCEPT ![dest] = pixels[source],
                  ![dest + 1] = pixels[source + 1],
                  ![dest + 2] = pixels[source + 2]]

RECURSIVE swizzle_row(_, _, _, _, _, _)
\* for (x = ...; x < texture->width; x++)
swizzle_row(m, base, tex, pixels, x, y) ==
    IF x >= tex.width THEN m
    ELSE LET m2 == swizzle_pixel(m, base, tex, pixels, x, y)
         IN  IF Stored(m2, m) THEN swizzle_row(m2, base, tex, pixels, x + 1, y)
             ELSE m2

RECURSIVE swizzle_rows(_, _, _, _, _)
\* for (y = ...; y < texture->height; y++)
swizzle_rows(m, base, tex, pixels, y) ==
    IF y >= tex.height THEN m
    ELSE LET m2 == swizzle_row(m, base, tex, pixels, 0, y)
         IN  IF Stored(m2, m) THEN swizzle_rows(m2, base, tex, pixels, y + 1)
             ELSE m2

texture_24_swizzle(m, base, tex, pixels) == swizzle_rows(m, base, tex, pixels, 0)

(***************************************************************************)
(* texture_24_mipmap.                                                      *)
(***************************************************************************)
\* lines 133, 138-146 (178-192): `dest`, as an offset from dst->dest
mipmap_dest(dst, x, y) ==
    LET block_pitch == Shr(ALIGN(dst.width, 16), 4)
        block_y == Shr(y, 4)
        block_x == Shr(x, 4)
        offset == space_filler_index(x % 16, y % 16)
    IN  (3 * 256) * (block_pitch * block_y + block_x) + 3 * offset

\* a plausible slip: the shifted index is not cut back to the tile
mipmap_source_nomask(dst, src, x, y) ==
    LET source_pitch == Shr(ALIGN(src.width, 16), 4)
        source_y == Shr(y, 3)
        source_x == Shr(x, 3)
        offset == space_filler_index(x % 16, y % 16)
    IN  (3 * 256) * (source_pitch * source_y + source_x) + 3 * Shl(offset, 2)

\* lines 134, 140, 148-150 (180, 185, 194-197): `source`, from src->dest
mipmap_source(dst, src, x, y) ==
    LET source_pitch == Shr(ALIGN(src.width, 16), 4)
        source_y == Shr(y, 3)
        source_x == Shr(x, 3)
        offset == space_filler_index(x % 16, y % 16)
    IN  (3 * 256) * (source_pitch * source_y + source_x)
          + 3 * (Shl(offset, 2) % 256)

\* the texels read through `source`, as byte offsets of their first channel:
\* source[0], source[9] (lines 152-154)
mipmap_column_taps == <<0, 9>>
\* source[0], source[3] (lines 172-174)
mipmap_row_taps == <<0, 3>>
\* source[0], source[3], source[6], source[9] (lines 199-204)
mipmap_taps == <<0, 3, 6, 9>>

\* a plausible slip: the horizontal neighbour is read in a one-pixel column
mipmap_column_pixel_horizontal(m, base, dst, src, y) ==
    LET dest == (dst.dest - base) + mipmap_dest(dst, 0, y)
        source == (src.dest - base) + mipmap_source(dst, src, 0, y)
        t == mipmap_row_taps
    IN  [m EXCEPT
           ![dest] = (m[source + t[1]] + m[source + t[2]]) \div 2,
           ![dest + 1] = (m[source + 1 + t[1]] + m[source + 1 + t[2]]) \div 2,
           ![dest + 2] = (m[source + 2 + t[1]] + m[source + 2 + t[2]]) \div 2]

\* src->width == 1, the loop body, lines 138-154
mipmap_column_pixel(m, base, dst, src, y) ==
    LET dest == (dst.dest - base) + mipmap_dest(dst, 0, y)
        source == (src.dest - base) + mipmap_source(dst, src, 0, y)
        t == mipmap_column_taps
    IN  [m EXCEPT
           ![dest] = (m[source + t[1]] + m[source + t[2]]) \div 2,
           ![dest + 1] = (m[source + 1 + t[1]] + m[source + 1 + t[2]]) \div 2,
           ![dest + 2] = (m[source + 2 + t[1]] + m[source + 2 + t[2]]) \div 2]

\* src->height == 1, the loop body, lines 158-174
mipmap_row_pixel(m, base, dst, src, x) ==
    LET dest == (dst.dest - base) + mipmap_dest(dst, x, 0)
        source == (src.dest - base) + mipmap_source(dst, src, x, 0)
        t == mipmap_row_taps
    IN  [m EXCEPT
           ![dest] = (m[source + t[1]] + m[source + t[2]]) \div 2,
           ![dest + 1] = (m[source + 1 + t[1]] + m[source + 1 + t[2]]) \div 2,
           ![dest + 2] = (m[source + 2 + t[1]] + m[source + 2 + t[2]]) \div 2]

\* the general case, the inner loop body, lines 183-204
mipmap_pixel(m, base, dst, src, x, y) ==
    LET dest == (dst.dest - base) + mipmap_dest(dst, x, y)
        source == (src.dest - base) + mipmap_source(dst, src, x, y)
        t == mipmap_taps
    IN  [m EXCEPT
           ![dest] = (m[source + t[1]] + m[source + t[2]]
                        + m[source + t[3]] + m[source + t[4]]) \div 4,
           ![dest + 1] = (m[source + 1 + t[1]] + m[source + 1 + t[2]]
                            + m[source + 1 + t[3]] + m[source + 1 + t[4]]) \div 4,
           ![dest + 2] = (m[source + 2 + t[1]] + m[source + 2 + t[2]]
                            + m[source + 2 + t[3]] + m[source + 2 + t[4]]) \div 4]

\* the taps of the branch texture_24_mipmap takes for src
mipmap_branch_taps(src) ==
    IF src.width = 1 THEN mipmap_column_taps
    ELSE IF src.height = 1 THEN mipmap_row_taps
    ELSE mipmap_taps

RECURSIVE mipmap_column(_, _, _, _, _)
mipmap_column(m, base, dst, src, y) ==
    IF y >= dst.height THEN m
    ELSE LET m2 == mipmap_column_pixel(m, base, dst, src, y)
         IN  IF Stored(m2, m) THEN mipmap_column(m2, base, dst, src, y + 1)
             ELSE m2

RECURSIVE mipmap_row(_, _, _, _, _)
mipmap_row(m, base, dst, src, x) ==
    IF x >= dst.width THEN m
    ELSE LET m2 == mipmap_row_pixel(m, base, dst, src, x)
         IN  IF Stored(m2, m) THEN mipmap_row(m2, base, dst, src, x + 1)
             ELSE m2

RECURSIVE mipmap_inner(_, _, _, _, _, _)
mipmap_inner(m, base, dst, src, x, y) ==
    IF x >= dst.width THEN m
    ELSE LET m2 == mipmap_pixel(m, base, dst, src, x, y)
         IN  IF Stored(m2, m) THEN mipmap_inner(m2, base, dst, src, x + 1, y)
             ELSE m2

RECURSIVE mipmap_outer(_, _, _, _, _)
mipmap_outer(m, base, dst, src, y) ==
    IF y >= dst.height THEN m
    ELSE LET m2 == mipmap_inner(m, base, dst, src, 0, y)
         IN  IF Stored(m2, m) THEN mipmap_outer(m2, base, dst, src, y + 1)
             ELSE m2

texture_24_mipmap(m, base, dst, src) ==
    IF src.width = 1 THEN mipmap_column(m, base, dst, src, 0)
    ELSE IF src.height = 1 THEN mipmap_row(m, base, dst, src, 0)
    ELSE mipmap_outer(m, base, dst, src, 0)

RECURSIVE mipmap_levels(_, _, _, _)
\* for (i = 1; i < texture->levels; i++) texture_24_mipmap(...)
mipmap_levels(m, base, tex, i) ==
    IF i >= tex.levels THEN m
    ELSE LET m2 == texture_24_mipmap(m, base, tex.level[i], tex.level[i - 1])
         IN  IF Stored(m2, m) THEN mipmap_levels(m2, base, tex, i + 1)
             ELSE m2

\* lines 253-256 of texture_24_create
texture_24_pixels(m, base, tex, pixels) ==
    mipmap_levels(texture_24_swizzle(m, base, tex, pixels), base, tex, 1)

(***************************************************************************)
(* Spec: sequences of texture_create calls on one arena, arena contents    *)
(* not tracked.  SpecLevels: one call, for every width and height up to    *)
(* one past the limit.                                                     *)
(***************************************************************************)
\* longest sequence of calls on one arena
MaxCalls == 3

Formats == {LIMA_TEXEL_FORMAT_RGB_888, LIMA_TEXEL_FORMAT_RGBA_8888}

\* arenas a caller may hand over: [size, used], 0 <= used <= size
Arenas ==
    { [size |-> 2 ^ 27, used |-> 0],
      [size |-> 2 ^ 27, used |-> 2 ^ 27 - 300000],
      [size |-> 70000000, used |-> 64],
      [size |-> 4096, used |-> 1000],
      [size |-> 5000, used |-> 5000] }

ArenaState(a) ==
    [aux_mem_address |-> 2 ^ 16, aux_mem_physical |-> 2 ^ 30,
     aux_mem_used |-> a.used, aux_mem_size |-> a.size]

\* <<width, height>> of the calls of Spec.  The check of line 356 has no
\* lower bound, so texture_create accepts a negative width: ALIGN(-1, 16) = 0
\* gives levels of size 0, ALIGN(-2000, 16) = -2000 a level 0 of size -95232.
DimPairs ==
    { <<0 - 2000, 5>>, <<0 - 1, 5>>, <<16, 16>>, <<17, 3>>, <<300, 200>>,
      <<1000, MaxDim>>, <<MaxDim, MaxDim>>,
      <<MaxDim + 1, 16>>, <<16, 5000>> }

\* heights paired with every width (and widths with every height) in SpecLevels
SideDims == {1, MaxDim}

AllDimPairs ==
    { <<w, h>> : w \in 1..(MaxDim + 1), h \in SideDims }
    \cup { <<w, h>> : w \in SideDims, h \in 1..(MaxDim + 1) }
    \cup { <<300, 200>>, <<200, 300>>, <<2048, 2047>>, <<17, 33>> }

InitArena(as) ==
    /\ \E a \in as : state = ArenaState(a)
    /\ mem = NoMem
    /\ texture = NULL
    /\ call = NoCall
    /\ ret = NoRet
    /\ ncalls = 0
    /\ mem_physical_signed = FALSE

\* texture_create(state, src, width, height, format, mipmap), pixels apart
CreateLayout(dims, formats, mipmaps, limit) ==
    /\ ncalls < limit
    /\ \E d \in dims, format \in formats, mipmap \in mipmaps :
         LET r == texture_create(state, d[1], d[2], format, mipmap)
         IN  /\ state' = r.state
             /\ texture' = r.texture
             /\ call' = [op |-> "texture_create", width |-> d[1], height |-> d[2],
                         format |-> format, mipmap |-> mipmap, state |-> state]
    /\ ncalls' = ncalls + 1
    /\ UNCHANGED <<mem, ret, mem_physical_signed>>

Init == InitArena(Arenas)
Next == CreateLayout(DimPairs, Formats, {0, 1}, MaxCalls)
Spec == Init /\ [][Next]_vars

\* the arguments of the one call are drawn with the initial state
InitLevels ==
    /\ state = ArenaState([size |-> 2 ^ 27, used |-> 40])
    /\ mem = NoMem
    /\ texture = NULL
    /\ ret = NoRet
    /\ ncalls = 0
    /\ mem_physical_signed = FALSE
    /\ \E d \in AllDimPairs, mipmap \in {0, 1} :
           call = [op |-> "arguments", width |-> d[1], height |-> d[2],
                   format |-> LIMA_TEXEL_FORMAT_RGB_888, mipmap |-> mipmap]

CreateDrawn ==
    /\ call.op = "arguments"
    /\ CreateLayout({<<call.width, call.height>>}, {call.format}, {call.mipmap}, 1)

NextLevels == CreateDrawn
SpecLevels == InitLevels /\ [][NextLevels]_vars

(***************************************************************************)
(* The layout rules of the specification, stated without the model's       *)
(* operators.                                                              *)
(***************************************************************************)
RoundUp(x, m) == ((x + m - 1) \div m) * m
AtLeast1(x) == IF x < 1 THEN 1 ELSE x
Larger(a, b) == IF a > b THEN a ELSE b

\* level count: floor(log2(max(width, height))) + 1 when mipmapped
RuleLevels(width, height, mipmap) ==
    IF mipmap = 0 THEN 1
    ELSE CHOOSE n \in 1..31 :
             2 ^ (n - 1) <= Larger(width, height) /\ Larger(width, height) < 2 ^ n

RuleLevelSize(width, height, i) ==
    RoundUp(RoundUp(RoundUp(AtLeast1(width \div 2 ^ i), 16) * 3, 4)
              * RoundUp(AtLeast1(height \div 2 ^ i), 16), 1024)

RECURSIVE RuleSizeFrom(_, _, _, _)
RuleSizeFrom(width, height, i, n) ==
    IF i >= n THEN 0
    ELSE RuleLevelSize(width, height, i) + RuleSizeFrom(width, height, i + 1, n)

RuleTotalSize(c) ==
    RuleSizeFrom(c.width, c.height, 0, RuleLevels(c.width, c.height, c.mipmap))

Created == call.op = "texture_create"
Succeeded == Created /\ texture # NULL

\* C1: a call with width or height above 4096, a format other than RGB_888, or
\* a total level size above aux_mem_size - aux_mem_used returns no texture and
\* leaves aux_mem_used as it was before the call.
C1_FailsAsUnit ==
    (/\ Created
     /\ \/ call.width > 4096
        \/ call.height > 4096
        \/ call.format # LIMA_TEXEL_FORMAT_RGB_888
        \/ /\ call.width >= 1 /\ call.height >= 1
           /\ RuleTotalSize(call) > call.state.aux_mem_size - call.state.aux_mem_used)
    => /\ texture = NULL
       /\ state.aux_mem_used = call.state.aux_mem_used

\* an out-of-memory failure on an arena that still had room for something
C1_Witness ==
    /\ Created
    /\ call.width <= 4096 /\ call.height <= 4096
    /\ call.format = LIMA_TEXEL_FORMAT_RGB_888
    /\ RuleTotalSize(call) > call.state.aux_mem_size - call.state.aux_mem_used
    /\ call.state.aux_mem_size - call.state.aux_mem_used >= 1024
    /\ call.mipmap = 1
    /\ texture = NULL

\* C2: a successful call increases aux_mem_used by exactly the sum of the
\* level sizes; level 0 starts at the offset used before the call, level i+1
\* starts where level i ends, so that the byte ranges of the levels are
\* pairwise disjoint and in level order, and each level's CPU and physical
\* address are at the same offset from their bases.
C2_LevelsContiguous ==
    Succeeded =>
        /\ state.aux_mem_used
             = call.state.aux_mem_used + levels_size(texture.level, 0, texture.levels)
        /\ state.aux_mem_used >= call.state.aux_mem_used
        /\ texture.levels >= 1
        /\ texture.level[0].dest = state.aux_mem_address + call.state.aux_mem_used
        /\ \A i \in 0..(texture.levels - 1) :
             /\ texture.level[i].dest <= texture.level[i].dest + texture.level[i].size
             /\ texture.level[i].dest - state.aux_mem_address
                  = texture.level[i].mem_physical - state.aux_mem_physical
             /\ i + 1 < texture.levels =>
                  texture.level[i + 1].dest
                    = texture.level[i].dest + texture.level[i].size
        /\ \A i, j \in 0..(texture.levels - 1) :
             i < j => texture.level[i].dest + texture.level[i].size
                        <= texture.level[j].dest

\* C3: from 0 <= aux_mem_used <= aux_mem_size, over calls with any widths,
\* heights, formats and mipmap flags, aux_mem_used never decreases from one
\* call to the next and never exceeds aux_mem_size.
C3_UsedMonotoneBounded ==
    /\ [](state.aux_mem_used <= state.aux_mem_size)
    /\ [][state'.aux_mem_used >= state.aux_mem_used]_vars

\* C4: for width and height in 1..4096 a constructed texture has
\* floor(log2(max(width, height))) + 1 levels when mipmapped and 1 otherwise,
\* at most 13, level i being max(1, width >> i) by max(1, height >> i);
\* 300x200 mipmapped has 9 levels, level 0 300x200 and level 8 1x1.
C4_LevelCountAndDims ==
    (Succeeded /\ call.width \in 1..4096 /\ call.height \in 1..4096) =>
        /\ texture.levels = RuleLevels(call.width, call.height, call.mipmap)
        /\ texture.levels <= 13
        /\ DOMAIN texture.level = 0..(texture.levels - 1)
        /\ \A i \in 0..(texture.levels - 1) :
             /\ texture.level[i].width = AtLeast1(call.width \div 2 ^ i)
             /\ texture.level[i].height = AtLeast1(call.height \div 2 ^ i)
        /\ (call.width = 300 /\ call.height = 200 /\ call.mipmap = 1) =>
             /\ texture.levels = 9
             /\ texture.level[0].width = 300 /\ texture.level[0].height = 200
             /\ texture.level[8].width = 1 /\ texture.level[8].height = 1

C4_Witness ==
    /\ Succeeded
    /\ call.width = 300 /\ call.height = 200 /\ call.mipmap = 1
    /\ texture.levels = 9

\* C9: when a constructed texture has a level 11, its physical address is
\* level 10's plus 1024; when it has a level 12, that one's is level 10's
\* plus 2048.
C9_ImpliedLevelsAdjacent ==
    Succeeded =>
        /\ texture.levels >= 12 =>
             texture.level[11].mem_physical = texture.level[10].mem_physical + 1024
        /\ texture.levels >= 13 =>
             texture.level[12].mem_physical = texture.level[10].mem_physical + 2048

C9_Witness ==
    /\ Succeeded
    /\ call.width = 4096 /\ call.height = 1
    /\ texture.levels = 13
    /\ texture.level[12].mem_physical = texture.level[10].mem_physical + 2048

(***************************************************************************)
(* SpecIndex: space_filler_index applied to every coordinate pair of a     *)
(* 16x16 tile.                                                             *)
(***************************************************************************)
InitIndex ==
    /\ state = [aux_mem_address |-> 0, aux_mem_physical |-> 0,
                aux_mem_used |-> 0, aux_mem_size |-> 0]
    /\ mem = NoMem
    /\ texture = NULL
    /\ ncalls = 0
    /\ mem_physical_signed = FALSE
    /\ ret = NoRet
    /\ \E x \in 0..15, y \in 0..15 :
           call = [op |-> "space_filler_index", x |-> x, y |-> y]

ApplyIndex ==
    /\ call.op = "space_filler_index"
    /\ ret = NoRet
    /\ ret' = [op |-> "space_filler_index",
               value |-> space_filler_index(call.x, call.y)]
    /\ UNCHANGED <<state, mem, texture, call, ncalls, mem_physical_signed>>

NextIndex == ApplyIndex

SpecIndex == InitIndex /\ [][NextIndex]_vars

\* C5: space_filler_index maps the 256 pairs of [0,16)x[0,16) one-to-one into
\* 0..255: the result of a pair lies in 0..255 and no other pair has it.
C5_IndexBijection ==
    ret.op = "space_filler_index" =>
        /\ ret.value \in 0..255
        /\ \A x \in 0..15, y \in 0..15 :
               space_filler_index(x, y) = ret.value => (x = call.x /\ y = call.y)

C5_Witness ==
    /\ ret.op = "space_filler_index"
    /\ call.x = 15 /\ call.y = 9
    /\ ret.value = 150

(***************************************************************************)
(* SpecSwizzle: the destination offset of texture_24_swizzle for every     *)
(* pixel of textures up to MaxSwizzle wide and high.                       *)
(***************************************************************************)
MaxSwizzle == 36

InitSwizzle ==
    /\ state = [aux_mem_address |-> 0, aux_mem_physical |-> 0,
                aux_mem_used |-> 0, aux_mem_size |-> 0]
    /\ mem = NoMem
    /\ texture = NULL
    /\ ncalls = 0
    /\ mem_physical_signed = FALSE
    /\ ret = NoRet
    /\ \E width \in 1..MaxSwizzle, y \in 0..(MaxSwizzle - 1) :
         \E x \in 0..(width - 1), height \in {y + 1, MaxSwizzle} :
           call = [op |-> "swizzle_dest", width |-> width, height |-> height,
                   x |-> x, y |-> y]

ApplySwizzleDest ==
    /\ call.op = "swizzle_dest"
    /\ ret = NoRet
    /\ ret' = [op |-> "swizzle_dest",
               value |-> swizzle_dest(call.width, call.x, call.y)]
    /\ UNCHANGED <<state, mem, texture, call, ncalls, mem_physical_signed>>

NextSwizzle == ApplySwizzleDest

SpecSwizzle == InitSwizzle /\ [][NextSwizzle]_vars

\* bits 0, 2, 4, 6 of v packed into bits 0..3
Compact(v) ==
    (v % 2) + 2 * ((v \div 4) % 2) + 4 * ((v \div 16) % 2) + 8 * ((v \div 64) % 2)

\* the offset split into tile number and in-tile index, the index undone
Unswizzle(width, offset) ==
    LET tile == offset \div 768
        index == (offset % 768) \div 3
        blockPitch == RoundUp(width, 16) \div 16
        ry == Compact(index \div 2)
        rx == BitXor(Compact(index), ry)
    IN  <<16 * (tile % blockPitch) + rx, 16 * (tile \div blockPitch) + ry>>

\* C6: for every pixel (x, y), x < width, y < height, the level-0 destination
\* offset 768*((y>>4)*blockPitch + (x>>4)) + 3*index(x&15, y&15) is inverted
\* by the tile/index split to exactly (x, y); no two pixels share an offset.
C6_SwizzleRoundTrip ==
    ret.op = "swizzle_dest" =>
        /\ ret.value = 768 * ((call.y \div 16) * (RoundUp(call.width, 16) \div 16)
                                + (call.x \div 16))
                         + 3 * space_filler_index(call.x % 16, call.y % 16)
        /\ Unswizzle(call.width, ret.value) = <<call.x, call.y>>

\* a pixel of the second tile row and third tile column of a 33-wide texture
C6_Witness ==
    /\ ret.op = "swizzle_dest"
    /\ call.width = 33 /\ call.x = 32 /\ call.y = 17
    /\ ret.value = 768 * 5 + 3 * 3

(***************************************************************************)
(* SpecAttach: texture_descriptor_level_attach on a descriptor with prior  *)
(* content, for addresses over the whole 32-bit range and for both         *)
(* declarations of mem_physical.                                           *)
(***************************************************************************)
\* physical addresses of the level being attached
\* 0x80000000 is the int -2^31, 0xFFFFFFFF the int -1
AttachAddresses ==
    { 0, 1, 32, 63, 64, 1024, 4096 + 64, 2 ^ 30, 2 ^ 30 + 1024 * 37 + 64,
      305419896, 2 ^ 30 + (2 ^ 30 - 64), 2 ^ 30 + (2 ^ 30 - 1),
      (0 - 2 ^ 30) - 2 ^ 30, (0 - 2 ^ 30) - 2 ^ 30 + 64, 0 - 2 ^ 30,
      0 - 2 ^ 30 + 1024 * 5, 0 - 64, 0 - 1 }

\* prior contents of every descriptor word
AttachFills ==
    { {}, 0..31, {b \in 0..31 : b % 2 = 0}, {b \in 0..31 : b % 2 = 1} }

InitAttach ==
    /\ state = [aux_mem_address |-> 0, aux_mem_physical |-> 0,
                aux_mem_used |-> 0, aux_mem_size |-> 0]
    /\ mem = NoMem
    /\ ncalls = 0
    /\ mem_physical_signed \in BOOLEAN
    /\ ret = NoRet
    /\ \E i \in 0..12, a \in AttachAddresses, fill \in AttachFills :
         /\ texture = [width |-> MaxDim, height |-> MaxDim,
                       format |-> LIMA_TEXEL_FORMAT_RGB_888, levels |-> 13,
                       level |-> [l \in 0..12 |->
                                    [level |-> l, width |-> 1, height |-> 1,
                                     size |-> 1024, dest |-> 0,
                                     mem_physical |-> a]],
                       descriptor |-> [w \in 0..15 |-> fill]]
         /\ call = [op |-> "attach_arguments", i |-> i]

ApplyAttach ==
    /\ call.op = "attach_arguments"
    /\ texture' = texture_descriptor_level_attach(texture, call.i)
    /\ call' = [op |-> "texture_descriptor_level_attach", i |-> call.i,
                before |-> texture.descriptor]
    /\ UNCHANGED <<state, mem, ret, ncalls, mem_physical_signed>>

NextAttach == ApplyAttach

SpecAttach == InitAttach /\ [][NextAttach]_vars

\* level i's address field: the <<word, bit>> pairs its attach clears
AddressField(i) ==
    CASE i = 0 -> ({6} \X (30..31)) \cup ({7} \X (0..23))
      [] i = 1 -> ({7} \X (24..31)) \cup ({8} \X (0..17))
      [] i = 2 -> ({8} \X (18..31)) \cup ({9} \X (0..11))
      [] i = 3 -> ({9} \X (12..31)) \cup ({10} \X (0..5))
      [] i = 4 -> {10} \X (6..31)
      [] i = 5 -> {11} \X (0..25)
      [] i = 6 -> ({11} \X (26..31)) \cup ({12} \X (0..19))
      [] i = 7 -> ({12} \X (20..31)) \cup ({13} \X (0..13))
      [] i = 8 -> ({13} \X (14..31)) \cup ({14} \X (0..7))
      [] i = 9 -> ({14} \X (8..31)) \cup ({15} \X (0..1))
      [] i = 10 -> {15} \X (2..27)
      [] OTHER -> {}

Attached == call.op = "texture_descriptor_level_attach"

\* C8: for level i in 0..10, any prior descriptor content and any physical
\* address, texture_descriptor_level_attach(texture, i) changes only bits of
\* level i's address field; every other descriptor bit keeps its value.
C8_AttachFrame ==
    (Attached /\ call.i \in 0..10) =>
        \A w \in 0..15, b \in 0..31 :
            <<w, b>> \notin AddressField(call.i) =>
                (b \in texture.descriptor[w] <=> b \in call.before[w])

(***************************************************************************)
(* SpecPixels: one texture_create call, arena memory tracked.  The call's  *)
(* arguments, the source buffer among them, and the prior content of the   *)
(* arena are drawn with the initial state.                                 *)
(***************************************************************************)
\* widths and heights 1..MaxSmall are all tried, besides the larger SpecialDims
MaxSmall == 4

SpecialDims ==
    { <<34, 34>>, <<34, 1>>, <<1, 34>>, <<18, 18>>, <<33, 17>>, <<5, 9>> }

PixelDims == { <<w, h>> : w, h \in 1..MaxSmall } \cup SpecialDims

\* bytes of the arena memory
PixelArenaSize == 16384

\* the caller's buffer: rows of width pixels at a pitch of ALIGN(width * 3, 4)
UniformImage(width, height, c) ==
    LET pitch == RoundUp(width * 3, 4)
    IN  [o \in 0..(pitch * height - 1) |->
            IF o % pitch < 3 * width THEN c[((o % pitch) % 3) + 1] ELSE 238]

VariedImage(width, height) ==
    LET pitch == RoundUp(width * 3, 4)
    IN  [o \in 0..(pitch * height - 1) |-> (o * 37 + (o \div pitch) * 101 + 11) % 256]

Images(width, height) ==
    { UniformImage(width, height, <<255, 255, 255>>),
      UniformImage(width, height, <<200, 17, 1>>),
      VariedImage(width, height) }

\* what the arena holds before the call
PriorContents ==
    { [a \in 0..(PixelArenaSize - 1) |-> 0],
      [a \in 0..(PixelArenaSize - 1) |-> (a * 7 + 3) % 256] }

InitPixels ==
    /\ texture = NULL
    /\ ret = NoRet
    /\ ncalls = 0
    /\ mem_physical_signed = FALSE
    /\ \E used \in {0, 2048, 3000} :
           state = ArenaState([size |-> PixelArenaSize, used |-> used])
    /\ mem \in PriorContents
    /\ \E d \in PixelDims, format \in Formats, mipmap \in {0, 1} :
         \E src \in Images(d[1], d[2]) :
           call = [op |-> "arguments", width |-> d[1], height |-> d[2],
                   format |-> format, mipmap |-> mipmap, src |-> src]

\* texture_create(state, src, width, height, format, mipmap), in full
CreatePixels ==
    /\ call.op = "arguments"
    /\ LET r == texture_create(state, call.width, call.height,
                               call.format, call.mipmap)
       IN  /\ state' = r.state
           /\ texture' = r.texture
           /\ mem' = IF r.texture = NULL THEN mem
                     ELSE texture_24_pixels(mem, state.aux_mem_address,
                                            r.texture, call.src)
    /\ call' = [op |-> "texture_create", width |-> call.width,
                height |-> call.height, format |-> call.format,
                mipmap |-> call.mipmap, src |-> call.src, state |-> state]
    /\ ncalls' = ncalls + 1
    /\ UNCHANGED <<ret, mem_physical_signed>>

NextPixels == CreatePixels

SpecPixels == InitPixels /\ [][NextPixels]_vars

\* where a level of the given width stores pixel (x, y), from the level's start
SwizzledOffset(width, x, y) ==
    768 * ((y \div 16) * (RoundUp(width, 16) \div 16) + (x \div 16))
      + 3 * space_filler_index(x % 16, y % 16)

\* channel k of the pixel stored for (x, y) at level lvl's own swizzled address
LevelByte(lvl, x, y, k) ==
    mem[(lvl.dest - state.aux_mem_address) + SwizzledOffset(lvl.width, x, y) + k]

\* every pixel of the source buffer of the call is c
SourceUniform(c) ==
    \A x \in 0..(call.width - 1), y \in 0..(call.height - 1), k \in 0..2 :
        call.src[y * RoundUp(call.width * 3, 4) + 3 * x + k] = c[k + 1]

Colours == { <<255, 255, 255>>, <<200, 17, 1>>, <<0, 0, 0>> }

\* C7: after a successful mipmapped texture_create from a source whose pixels
\* all have the colour c, every pixel of every level 1..levels-1 holds c,
\* whatever the arena held before.
C7_UniformMipLevels ==
    (Succeeded /\ call.mipmap = 1) =>
        \A c \in Colours :
            SourceUniform(c) =>
                \A i \in 1..(texture.levels - 1) :
                    \A x \in 0..(texture.level[i].width - 1),
                       y \in 0..(texture.level[i].height - 1), k \in 0..2 :
                        LevelByte(texture.level[i], x, y, k) = c[k + 1]

\* a 1x34 texture (one-pixel columns down to 1x1) over non-zero prior content
C7_Witness ==
    /\ Succeeded /\ call.mipmap = 1
    /\ call.width = 1 /\ call.height = 34
    /\ SourceUniform(<<200, 17, 1>>)
    /\ call.state.aux_mem_used = 3000
    /\ mem[0] = 3
    /\ texture.levels = 6
    /\ LevelByte(texture.level[5], 0, 0, 0) = 200

\* the texels of level i-1 averaged into pixel (x, y) of level i
MipWindow(i, x, y) ==
    LET s == texture.level[i - 1]
    IN  IF s.width = 1 THEN { <<0, 2 * y>>, <<0, 2 * y + 1>> }
        ELSE IF s.height = 1 THEN { <<2 * x, 0>>, <<2 * x + 1, 0>> }
        ELSE { <<2 * x, 2 * y>>, <<2 * x + 1, 2 * y>>,
               <<2 * x, 2 * y + 1>>, <<2 * x + 1, 2 * y + 1>> }

RECURSIVE WindowSum(_, _, _)
WindowSum(lvl, window, k) ==
    IF window = {} THEN 0
    ELSE LET p == CHOOSE q \in window : TRUE
         IN  LevelByte(lvl, p[1], p[2], k) + WindowSum(lvl, window \ {p}, k)

\* C10: each channel of pixel (x, y) of level i >= 1 is the truncating average
\* of that channel over the logical pixels (2x,2y), (2x+1,2y), (2x,2y+1),
\* (2x+1,2y+1) of level i-1; over (0,2y), (0,2y+1) when level i-1 is one pixel
\* wide; over (2x,0), (2x+1,0) when it is one pixel high; and every pixel
\* read lies inside level i-1's width and height.
C10_MipAverages ==
    Succeeded =>
        \A i \in 1..(texture.levels - 1) :
            \A x \in 0..(texture.level[i].width - 1),
               y \in 0..(texture.level[i].height - 1) :
                LET w == MipWindow(i, x, y)
                    s == texture.level[i - 1]
                    taps == mipmap_branch_taps(s)
                    source == mipmap_source(texture.level[i], s, x, y)
                IN  /\ \A p \in w : p[1] < s.width /\ p[2] < s.height
                    /\ { source + taps[j] : j \in DOMAIN taps }
                         = { SwizzledOffset(s.width, p[1], p[2]) : p \in w }
                    /\ \A k \in 0..2 :
                         LevelByte(texture.level[i], x, y, k)
                           = WindowSum(s, w, k) \div Cardinality(w)

\* a 34x34 texture with a varied source: levels over several tiles
C10_Witness ==
    /\ Succeeded /\ call.mipmap = 1
    /\ call.width = 34 /\ call.height = 34
    /\ ~ (\E c \in Colours : SourceUniform(c))
    /\ texture.levels = 6
    /\ texture.level[1].width = 17
    /\ LevelByte(texture.level[1], 16, 16, 1)
         # LevelByte(texture.level[1], 15, 16, 1)

=============================================================================
